---------------------------- MODULE Spec2Model ----------------------------
(***************************************************************************)
(* Model of the tick-synchronous dual-layer simulation engine:             *)
(*   - ConwayGrid      (src/src/core/conway_grid.py)                       *)
(*   - EmbeddingState  (src/src/core/embedding_layer.py)                   *)
(*   - EmbeddingGrid   (src/src/core/embedding_grid.py)                    *)
(*                                                                         *)
(* Numbers.  The program's vectors are float16 arrays.  The model keeps a  *)
(* real r as the integer round(r * Scale) (fixed point).  Products of two  *)
(* fixed-point numbers carry Scale twice and are divided back where the    *)
(* program divides.  Rounding is to the nearest unit.                      *)
(***************************************************************************)
EXTENDS Integers, Sequences, FiniteSets

VARIABLES
    size,          \* ConwayGrid.size / EmbeddingGrid.size
    grid,          \* ConwayGrid.grid, indexed grid[y][x]
    tick_count,    \* ConwayGrid.tick_count
    step_pre,      \* the grid as it was when the last ConwayGrid.step began
    deltas,        \* the list the last ConwayGrid.step returned
    states,        \* EmbeddingGrid.states: cell index -> EmbeddingState
    pass_events,   \* EmbeddingGrid.pass_events
    tick,          \* EmbeddingGrid.tick
    call,          \* the last EmbeddingGrid call: its arguments, its result and
                   \* the layer as it was when the call began
    route_in,      \* the arguments of the route_delta calls under examination
    route_out,     \* what the successive route_delta calls on route_in returned
    placed,        \* the last call that wrote a pattern into ConwayGrid.grid:
                   \* its arguments, its outcome, the grid before and after
    running,       \* ConwayRunner.running
    websockets,    \* ConwayRunner.websockets
    runner_tick_count, \* ConwayRunner.tick_count
    tasks,         \* the run_loop tasks created so far, each with its position
    connections,   \* per websocket of the /ws endpoint: whether its handler is
                   \* still receiving, and the messages sent to it, in order
    command,       \* the last request handled: its text or data, its outcome
                   \* and the runner as it was when the handling began
    sending        \* the last broadcast_deltas or broadcast_embedding_deltas
                   \* call: its argument, its position and what it did so far

conway_vars == <<grid, tick_count, step_pre, deltas>>
layer_vars == <<states, pass_events, tick, call>>
route_vars == <<route_in, route_out>>
runner_vars == <<running, websockets, runner_tick_count, tasks, connections,
                 command, sending>>
vars == <<size, grid, tick_count, step_pre, deltas,
          states, pass_events, tick, call, route_in, route_out,
          placed, running, websockets, runner_tick_count, tasks, connections,
          command, sending>>

(***************************************************************************)
(* Bounds of the model.                                                    *)
(***************************************************************************)
MaxSteps == 1       \* ConwayGrid.step calls explored from each initial grid
VecDim == 2         \* length of an embedding vector (384 in the program)
MaxInject == 2      \* payloads injected into the layer in one run
MaxBroadcasts == 2  \* broadcast calls in one run
MaxReceives == 5    \* receive_delta (and pass_delta) calls on one cell
MaxRequests == 4    \* start and stop requests in one run
MaxTick == 2        \* EmbeddingGrid.step calls in one run
MaxCommands == 2    \* requests handled by the runner and the endpoint in one run
MaxPatternSteps == 32  \* ConwayGrid.step calls that follow a written pattern

\* the grid sides explored: of the automaton every grid state (2^(n*n) of
\* them) is an initial state; on a side of 3 every other cell is a Moore
\* neighbour, on a side of 4 a cell has 7 cells that are not
GridSizes == {3, 4}

(***************************************************************************)
(* ConwayGrid                                                              *)
(***************************************************************************)
Coords(n) == 0 .. (n - 1)

\* np.zeros((size, size), dtype=np.uint8)
ZeroGrid(n) == [y \in Coords(n) |-> [x \in Coords(n) |-> 0]]

AllGrids(n) == [Coords(n) -> [Coords(n) -> {0, 1}]]

RECURSIVE SumSeq(_)
SumSeq(s) == IF s = <<>> THEN 0 ELSE Head(s) + SumSeq(Tail(s))

\* for dx in [-1, 0, 1]: for dy in [-1, 0, 1]: if dx == 0 and dy == 0: continue
MooreOffsets ==
    << <<-1, -1>>, <<-1, 0>>, <<-1, 1>>,
       << 0, -1>>,            << 0, 1>>,
       << 1, -1>>, << 1, 0>>, << 1, 1>> >>

\* ConwayGrid.get_neighbors(x, y): the live count of the 8 wrapped neighbours
ConwayGrid_get_neighbors(g, n, x, y) ==
    SumSeq([k \in 1 .. Len(MooreOffsets) |->
              g[(y + MooreOffsets[k][2]) % n][(x + MooreOffsets[k][1]) % n]])

KernelCountsCentre == [m \in 0 .. 2 |-> [c \in 0 .. 2 |-> 1]]

\* kernel = np.ones((3, 3)); kernel[1, 1] = 0
Kernel == [m \in 0 .. 2 |-> [c \in 0 .. 2 |-> IF m = 1 /\ c = 1 THEN 0 ELSE 1]]

\* convolve2d with boundary='fill': cells beyond the border count as dead
Convolve2dFill(g, n, i, j) ==
    SumSeq([k \in 1 .. 9 |->
              LET m == (k - 1) \div 3
                  c == (k - 1) % 3
                  r == i + 1 - m
                  q == j + 1 - c
              IN  IF r \in Coords(n) /\ q \in Coords(n)
                  THEN Kernel[m][c] * g[r][q] ELSE 0])

\* convolve2d(g, kernel, mode='same', boundary='wrap') at row i, column j:
\* sum over the kernel of kernel[m][c] * g[i + 1 - m][j + 1 - c], indices wrapped
Convolve2dWrap(g, n, i, j) ==
    SumSeq([k \in 1 .. 9 |->
              LET m == (k - 1) \div 3
                  c == (k - 1) % 3
              IN  Kernel[m][c] * g[(i + 1 - m) % n][(j + 1 - c) % n]])

\* new_grid = zeros; birth mask set to 1; survival mask set to 1
NewGrid(g, n) ==
    [y \in Coords(n) |-> [x \in Coords(n) |->
        LET nb == Convolve2dWrap(g, n, y, x)
        IN  IF g[y][x] = 0 /\ nb = 3 THEN 1
            ELSE IF g[y][x] = 1 /\ (nb = 2 \/ nb = 3) THEN 1
            ELSE 0]]

\* all (row, column) pairs column-major: a scan that walks x in the outer loop
ColMajor(n) == [k \in 1 .. n * n |-> <<(k - 1) % n, (k - 1) \div n>>]

\* all (row, column) pairs in the order np.argwhere reports them (C order)
RowMajor(n) == [k \in 1 .. n * n |-> <<(k - 1) \div n, (k - 1) % n>>]

\* changed = np.argwhere(new_grid != self.grid)
Argwhere(g, ng, n) ==
    SelectSeq(RowMajor(n), LAMBDA p : ng[p[1]][p[2]] # g[p[1]][p[2]])

\* for y, x in changed: deltas.append(CellDelta(x, y, alive=bool(new_grid[y, x])))
ComputeDeltas(changed, ng) ==
    [k \in 1 .. Len(changed) |->
        [x |-> changed[k][2], y |-> changed[k][1],
         alive |-> ng[changed[k][1]][changed[k][2]] = 1]]

(***************************************************************************)
(* Fixed-point numbers                                                     *)
(***************************************************************************)
\* the integer that stands for 1.0
Scale == 100

\* a / b rounded to the nearest integer, b > 0
RDiv(a, b) == (2 * a + b) \div (2 * b)

RECURSIVE SqrtSearch(_, _, _)
SqrtSearch(n, lo, hi) ==
    IF lo >= hi THEN lo
    ELSE LET mid == (lo + hi + 1) \div 2
         IN  IF mid * mid <= n THEN SqrtSearch(n, mid, hi)
             ELSE SqrtSearch(n, lo, mid - 1)

\* floor of the square root
ISqrt(n) == SqrtSearch(n, 0, IF n < 46340 THEN n ELSE 46340)

\* np.dot(a, b), carrying Scale twice
Dot(a, b) == SumSeq([i \in 1 .. Len(a) |-> a[i] * b[i]])

\* np.linalg.norm(v)
Norm(v) == ISqrt(Dot(v, v))

\* np.zeros(dim)
ZeroVec == [i \in 1 .. VecDim |-> 0]

\* the unit vector along axis k, and its opposite
UnitVec(k) == [i \in 1 .. VecDim |-> IF i = k THEN Scale ELSE 0]
NegVec(v) == [i \in 1 .. Len(v) |-> 0 - v[i]]

(***************************************************************************)
(* DeltaPayload and EmbeddingState                                         *)
(***************************************************************************)
\* DeltaPayload.__post_init__: assert self.vector.shape == (384,)
PayloadShapeOk(vector) == Len(vector) = VecDim

\* DeltaPayload(id, vector, l2_norm, created_tick)
DeltaPayload(id, vector, l2_norm, created_tick) ==
    [id |-> id, vector |-> vector, l2_norm |-> l2_norm,
     created_tick |-> created_tick]

\* deque(maxlen=4)
HistoryMaxLen == 4

\* an append that drops the newest of the entries kept, not the oldest
DequeAppendDropsNewest(h, v) ==
    IF Len(h) < HistoryMaxLen THEN Append(h, v)
    ELSE Append(SubSeq(h, 1, Len(h) - 1), v)

\* deque.append on a deque with maxlen: the oldest entry (the leftmost) is dropped
DequeAppend(h, v) ==
    IF Len(h) < HistoryMaxLen THEN Append(h, v) ELSE Append(Tail(h), v)

\* EmbeddingState.__init__; pending_delta is <<>> (None) or <<payload>>
EmbeddingState(cell_idx) ==
    [cell_idx |-> cell_idx,
     vector |-> ZeroVec,
     history |-> <<ZeroVec>>,
     pending_delta |-> <<>>,
     deltas_received |-> 0,
     deltas_passed |-> 0]

\* a hold that overwrites whatever the cell holds
hold_delta_overwrites(st, payload) ==
    [ok |-> TRUE, state |-> [st EXCEPT !.pending_delta = <<payload>>]]

\* EmbeddingState.hold_delta: ok is FALSE when the assertion fails
hold_delta(st, payload) ==
    IF st.pending_delta # <<>>
    THEN [ok |-> FALSE, state |-> st]
    ELSE [ok |-> TRUE, state |-> [st EXCEPT !.pending_delta = <<payload>>]]

\* a pass that counts also when the cell holds nothing
pass_delta_counts_always(st) ==
    [payload |-> st.pending_delta,
     state |-> [st EXCEPT !.pending_delta = <<>>, !.deltas_passed = @ + 1]]

\* a pass in which the sender applies the payload to its own vector
pass_delta_absorbs(st) ==
    [payload |-> st.pending_delta,
     state |-> IF st.pending_delta = <<>> THEN st
               ELSE [st EXCEPT
                       !.pending_delta = <<>>,
                       !.deltas_passed = @ + 1,
                       !.vector = [i \in 1 .. Len(@) |->
                                     @[i] + st.pending_delta[1].vector[i]]]]

\* EmbeddingState.pass_delta: the returned payload (<<>> for None) and the state
pass_delta(st) ==
    [payload |-> st.pending_delta,
     state |-> [st EXCEPT !.pending_delta = <<>>,
                          !.deltas_passed =
                              IF st.pending_delta # <<>> THEN @ + 1 ELSE @]]

\* alpha: float = 0.1, kept as its inverse
AlphaInv == 10

\* self.vector + alpha * payload.vector, in tenths of a unit
Blend(v, pv) == [i \in 1 .. Len(v) |-> AlphaInv * v[i] + pv[i]]

\* norm > 1e-8, for a norm in fixed point: the smallest positive norm is one
\* unit, far above 1e-8
AboveEps(norm) == norm >= 1

\* a receive that leaves deltas_received as it was
receive_delta_uncounted(st, payload) ==
    LET w == Blend(st.vector, payload.vector)
        norm == Norm(w)
    IN  [st EXCEPT
            !.history = DequeAppend(st.history, st.vector),
            !.vector = IF AboveEps(norm)
                       THEN [i \in 1 .. Len(w) |-> RDiv(w[i] * Scale, norm)]
                       ELSE [i \in 1 .. Len(w) |-> RDiv(w[i], AlphaInv)]]

\* a receive that also queues the payload in the recipient
receive_delta_requeues(st, payload) ==
    LET w == Blend(st.vector, payload.vector)
        norm == Norm(w)
    IN  [st EXCEPT
            !.history = DequeAppend(st.history, st.vector),
            !.vector = IF AboveEps(norm)
                       THEN [i \in 1 .. Len(w) |-> RDiv(w[i] * Scale, norm)]
                       ELSE [i \in 1 .. Len(w) |-> RDiv(w[i], AlphaInv)],
            !.pending_delta = <<payload>>,
            !.deltas_received = @ + 1]

\* EmbeddingState.receive_delta
receive_delta(st, payload) ==
    LET w == Blend(st.vector, payload.vector)
        norm == Norm(w)
    IN  [st EXCEPT
            !.history = DequeAppend(st.history, st.vector),
            !.vector = IF AboveEps(norm)
                       THEN [i \in 1 .. Len(w) |-> RDiv(w[i] * Scale, norm)]
                       ELSE [i \in 1 .. Len(w) |-> RDiv(w[i], AlphaInv)],
            !.deltas_received = @ + 1]

\* EmbeddingState.cosine_similarity
cosine_similarity(vector, other_vector) ==
    LET dot == Dot(vector, other_vector)
        norm_self == Norm(vector)
        norm_other == Norm(other_vector)
    IN  IF ~AboveEps(norm_self) \/ ~AboveEps(norm_other) THEN 0
        ELSE RDiv(dot * Scale, norm_self * norm_other)

\* EmbeddingState.cosine_with_previous: prev = self.history[-2]
cosine_with_previous(st) ==
    IF Len(st.history) < 2 THEN Scale
    ELSE cosine_similarity(st.vector, st.history[Len(st.history) - 1])

(***************************************************************************)
(* EmbeddingGrid                                                           *)
(***************************************************************************)
Cells(n) == 0 .. (n * n - 1)

\* EmbeddingGrid.idx_to_xy and xy_to_idx
idx_to_xy(n, idx) == <<idx % n, idx \div n>>
xy_to_idx(n, x, y) == y * n + x

\* the Moore neighbours listed by increasing cell index
get_neighbors_sorted(n, idx) ==
    LET xy == idx_to_xy(n, idx)
        nbs == {xy_to_idx(n, (xy[1] + MooreOffsets[k][1]) % n,
                             (xy[2] + MooreOffsets[k][2]) % n) : k \in 1 .. 8}
    IN  SelectSeq([k \in 1 .. n * n |-> k - 1], LAMBDA i : i \in nbs)

\* EmbeddingGrid.get_neighbors: the 8 wrapped neighbours, dx outer, dy inner
EmbeddingGrid_get_neighbors(n, idx) ==
    LET xy == idx_to_xy(n, idx)
    IN  [k \in 1 .. Len(MooreOffsets) |->
            xy_to_idx(n, (xy[1] + MooreOffsets[k][1]) % n,
                         (xy[2] + MooreOffsets[k][2]) % n)]

\* self.alpha_cosine = 0.7, self.alpha_energy = 0.3, in tenths
AlphaCosine == 7
AlphaEnergy == 3

\* energy = 0.5  # Default neutral energy
NeutralEnergy == 50

\* the last position of the greatest entry
ArgMaxLast(scores) ==
    CHOOSE i \in 1 .. Len(scores) :
        /\ \A j \in 1 .. Len(scores) : scores[j] <= scores[i]
        /\ \A j \in (i + 1) .. Len(scores) : scores[j] < scores[i]

\* np.argmax: the first position of the greatest entry
ArgMax(scores) ==
    CHOOSE i \in 1 .. Len(scores) :
        /\ \A j \in 1 .. Len(scores) : scores[j] <= scores[i]
        /\ \A j \in 1 .. (i - 1) : scores[j] < scores[i]

\* the score route_delta gives neighbour neighbor_idx; energy_field is <<>>
\* (None) or <<field>> with field[y][x]
Score(sts, n, neighbor_idx, payload, energy_field) ==
    LET cos_sim == cosine_similarity(sts[neighbor_idx].vector, payload.vector)
        nxy == idx_to_xy(n, neighbor_idx)
        energy == IF energy_field # <<>>
                  THEN energy_field[1][nxy[2]][nxy[1]]
                  ELSE NeutralEnergy
    IN  AlphaCosine * cos_sim + AlphaEnergy * energy

\* a route that also delivers the payload to the neighbour it chose
route_delta_delivers(sts, n, from_idx, payload, energy_field) ==
    LET neighbor_indices == EmbeddingGrid_get_neighbors(n, from_idx)
        scores == [k \in 1 .. Len(neighbor_indices) |->
                      Score(sts, n, neighbor_indices[k], payload, energy_field)]
        chosen_neighbor == neighbor_indices[ArgMax(scores)]
    IN  [to_idx |-> chosen_neighbor,
         similarity |-> cosine_similarity(sts[chosen_neighbor].vector,
                                          payload.vector),
         states |-> [sts EXCEPT ![chosen_neighbor] =
                        receive_delta(sts[chosen_neighbor], payload)]]

\* EmbeddingGrid.route_delta: the pair it returns, and the cell states as the
\* call leaves them
route_delta(sts, n, from_idx, payload, energy_field) ==
    LET neighbor_indices == EmbeddingGrid_get_neighbors(n, from_idx)
        scores == [k \in 1 .. Len(neighbor_indices) |->
                      Score(sts, n, neighbor_indices[k], payload, energy_field)]
        chosen_neighbor == neighbor_indices[ArgMax(scores)]
    IN  [to_idx |-> chosen_neighbor,
         similarity |-> cosine_similarity(sts[chosen_neighbor].vector,
                                          payload.vector),
         states |-> sts]

\* an event stamped with the tick after the one it was produced in
PassEventNextTick(t, from_idx, to_idx, payload_id, payload_norm, similarity) ==
    [tick |-> t + 1, from_idx |-> from_idx, to_idx |-> to_idx,
     payload_id |-> payload_id, payload_norm |-> payload_norm,
     similarity |-> similarity]

\* PassEvent(tick, from_idx, to_idx, payload_id, payload_norm, similarity)
PassEvent(t, from_idx, to_idx, payload_id, payload_norm, similarity) ==
    [tick |-> t, from_idx |-> from_idx, to_idx |-> to_idx,
     payload_id |-> payload_id, payload_norm |-> payload_norm,
     similarity |-> similarity]

\* the side PassEvent.to_dict divides by
ToDictSide == 8

\* round(value, 4) of a number kept in units of 1/Scale: with Scale below
\* 10^4 every such number has at most 4 decimals already
Round4(v) == IF Scale <= 10000 THEN v ELSE RDiv(v * 10000, Scale)

\* PassEvent.to_dict
to_dict(event) ==
    [tick |-> event.tick,
     from |-> [x |-> event.from_idx % ToDictSide,
               y |-> event.from_idx \div ToDictSide],
     to |-> [x |-> event.to_idx % ToDictSide,
             y |-> event.to_idx \div ToDictSide],
     payload_id |-> event.payload_id,
     norm |-> Round4(event.payload_norm),
     sim |-> Round4(event.similarity)]

\* the cells holding a payload, by decreasing index
PendingCellsDescending(sts, n) ==
    SelectSeq([k \in 1 .. n * n |-> n * n - k],
              LAMBDA i : sts[i].pending_delta # <<>>)

\* pending_cells = [i for i, state in enumerate(self.states)
\*                  if state.pending_delta is not None]
PendingCells(sts, n) ==
    SelectSeq([k \in 1 .. n * n |-> k - 1],
              LAMBDA i : sts[i].pending_delta # <<>>)

\* the body of "for from_idx in pending_cells" in EmbeddingGrid.step, run over
\* cells; acc holds states, tick_events and pass_events
RECURSIVE StepLoop(_, _, _, _, _)
StepLoop(acc, cells, n, t, energy_field) ==
    IF cells = <<>> THEN acc
    ELSE
      LET from_idx == Head(cells)
          passed == pass_delta(acc.states[from_idx])
          s1 == [acc.states EXCEPT ![from_idx] = passed.state]
      IN  IF passed.payload = <<>>
          THEN StepLoop([acc EXCEPT !.states = s1], Tail(cells), n, t,
                        energy_field)
          ELSE
            LET payload == passed.payload[1]
                r == route_delta(s1, n, from_idx, payload, energy_field)
                s2 == [r.states EXCEPT ![r.to_idx] =
                          receive_delta(r.states[r.to_idx], payload)]
                event == PassEvent(t, from_idx, r.to_idx, payload.id,
                                   payload.l2_norm, r.similarity)
            IN  StepLoop([states |-> s2,
                          tick_events |-> Append(acc.tick_events, event),
                          pass_events |-> Append(acc.pass_events, event)],
                         Tail(cells), n, t, energy_field)

\* energy_field = self.grid.grid.astype(np.float32) * 0.5 + 0.25
EnergyField(g, n) ==
    [y \in Coords(n) |-> [x \in Coords(n) |-> 25 + 50 * g[y][x]]]

\* a grid with the single live cell (x, y)
OneHot(n, hx, hy) ==
    [y \in Coords(n) |-> [x \in Coords(n) |-> IF x = hx /\ y = hy THEN 1 ELSE 0]]

\* the energy fields handed to step and route_delta: none, that of the empty
\* automaton, and that of an automaton whose only live cell is cell 0
EnergyInputs(n) ==
    {<<>>, <<EnergyField(ZeroGrid(n), n)>>, <<EnergyField(OneHot(n, 0, 0), n)>>}

\* the cells inject_delta is called on: cell 0 (the cell the energy field may
\* favour), its neighbours 1, n+1 and (by wrapping) n*n-1, and cell 2n+2, which
\* on a side of 4 is no neighbour of cell 0
InjectCells(n) == {0, 1, n + 1, 2 * n + 2, n * n - 1} \cap Cells(n)

\* the (payload_id, vector) pairs handed to inject_delta; the last vector has
\* one entry too many
InjectInputs ==
    {<<"p1", ZeroVec>>, <<"p2", UnitVec(1)>>,
     <<"p3", [i \in 1 .. (VecDim + 1) |-> 0]>>}

Snapshot == [states |-> states, pass_events |-> pass_events, tick |-> tick]

NoCall ==
    [op |-> "none", ok |-> TRUE, cell |-> 0, vector |-> <<>>, id |-> "",
     ret |-> <<>>, pre |-> <<>>]

\* ConwayGrid.step, explored while fewer than limit steps were taken
StepWithin(limit) ==
    /\ tick_count < limit
    /\ \E ng \in {NewGrid(grid, size)} :
          \E changed \in {Argwhere(grid, ng, size)} :
              /\ deltas' = ComputeDeltas(changed, ng)
              /\ grid' = ng
    /\ step_pre' = grid
    /\ tick_count' = tick_count + 1
    /\ UNCHANGED <<size, layer_vars, route_vars, placed, runner_vars>>

ConwayGrid_step == StepWithin(MaxSteps)

\* an index into one axis of a numpy array of side n: the position it reads
\* or writes, counted from the end when negative, or -1 where numpy raises
\* IndexError
ArrayIndex(i, n) ==
    IF 0 <= i /\ i < n THEN i
    ELSE IF 0 - n <= i /\ i < 0 THEN i + n
    ELSE 0 - 1

\* the assignments grid[row, column] = 1 of a list of <<row, column>>, in order
\* up to the first that raises
RECURSIVE WriteCells(_, _, _, _)
WriteCells(g, n, writes, k) ==
    IF k > Len(writes) THEN [grid |-> g, ok |-> TRUE]
    ELSE LET r == ArrayIndex(writes[k][1], n)
             c == ArrayIndex(writes[k][2], n)
         IN  IF r < 0 \/ c < 0 THEN [grid |-> g, ok |-> FALSE]
             ELSE WriteCells([g EXCEPT ![r][c] = 1], n, writes, k + 1)

\* the five assignments of ConwayGrid.seed_glider(x, y), as <<row, column>>
GliderWrites(x, y) ==
    << <<y, x + 1>>, <<y + 1, x + 2>>, <<y + 2, x>>, <<y + 2, x + 1>>,
       <<y + 2, x + 2>> >>

NoPlacement ==
    [op |-> "none", ok |-> TRUE, x |-> 0, y |-> 0, pre |-> <<>>, ret |-> <<>>]

\* a pattern is written before the first step of a run, once
Unplaced == placed = NoPlacement /\ tick_count = 0

\* writes a list of cells into the grid and records the call
Place(op, x, y, writes) ==
    \E w \in {WriteCells(grid, size, writes, 1)} :
        /\ grid' = w.grid
        /\ placed' = [op |-> op, ok |-> w.ok, x |-> x, y |-> y, pre |-> grid,
                       ret |-> w.grid]
        /\ UNCHANGED <<size, tick_count, step_pre, deltas, layer_vars,
                       route_vars, runner_vars>>

\* ConwayGrid.seed_glider(x, y)
seed_glider(x, y) ==
    /\ Unplaced
    /\ Place("seed_glider", x, y, GliderWrites(x, y))

\* a 2x2 block written cell by cell with its corner at column x, row y, the
\* coordinates taken modulo the side
BlockWrites(n, x, y) ==
    << <<y, x>>, <<y, (x + 1) % n>>, <<(y + 1) % n, x>>,
       <<(y + 1) % n, (x + 1) % n>> >>

write_block(x, y) ==
    /\ Unplaced
    /\ grid = ZeroGrid(size)
    /\ Place("block", x, y, BlockWrites(size, x, y))

\* a horizontal blinker written cell by cell from column x of row y
BlinkerWrites(n, x, y) ==
    << <<y, x>>, <<y, (x + 1) % n>>, <<y, (x + 2) % n>> >>

write_blinker(x, y) ==
    /\ Unplaced
    /\ grid = ZeroGrid(size)
    /\ Place("blinker", x, y, BlinkerWrites(size, x, y))

\* the payloads the layer has taken in so far
Injected(sts, log) ==
    Cardinality({i \in DOMAIN sts : sts[i].pending_delta # <<>>}) + Len(log)

\* EmbeddingGrid.inject_delta(cell_idx, vector, payload_id)
inject_delta(cell_idx, vector, payload_id) ==
    /\ Injected(states, pass_events) < MaxInject
    /\ IF ~PayloadShapeOk(vector)
       THEN /\ call' = [NoCall EXCEPT !.op = "inject", !.ok = FALSE,
                           !.cell = cell_idx, !.vector = vector,
                           !.id = payload_id, !.pre = <<Snapshot>>]
            /\ UNCHANGED states
       ELSE \E h \in {hold_delta(states[cell_idx],
                        DeltaPayload(payload_id, vector, Norm(vector), tick))} :
              /\ states' = [states EXCEPT ![cell_idx] = h.state]
              /\ call' = [NoCall EXCEPT !.op = "inject", !.ok = h.ok,
                             !.cell = cell_idx, !.vector = vector,
                             !.id = payload_id, !.pre = <<Snapshot>>]
    /\ UNCHANGED <<size, conway_vars, pass_events, tick, route_vars, placed,
                    runner_vars>>

\* EmbeddingGrid.step(energy_field)
EmbeddingGrid_step(energy_field) ==
    /\ tick < MaxTick
    /\ \E acc \in {StepLoop([states |-> states, tick_events |-> <<>>,
                             pass_events |-> pass_events],
                            PendingCells(states, size), size, tick,
                            energy_field)} :
          /\ states' = acc.states
          /\ pass_events' = acc.pass_events
          /\ call' = [NoCall EXCEPT !.op = "step", !.ret = acc.tick_events,
                         !.pre = <<Snapshot>>]
    /\ tick' = tick + 1
    /\ UNCHANGED <<size, conway_vars, route_vars, placed, runner_vars>>

\* EmbeddingGrid.route_delta called on the arguments route_in, a first and a
\* second time
RouteCall ==
    /\ Len(route_out) < 2
    /\ \E r \in {route_delta(states, size, route_in.from_idx, route_in.payload,
                             route_in.energy_field)} :
          /\ route_out' = Append(route_out,
                                 [to_idx |-> r.to_idx,
                                  similarity |-> r.similarity])
          /\ states' = r.states
          /\ call' = [NoCall EXCEPT !.op = "route", !.pre = <<Snapshot>>]
    /\ UNCHANGED <<size, conway_vars, pass_events, tick, route_in, placed,
                    runner_vars>>

NoRoute == [from_idx |-> 0, payload |-> <<>>, energy_field |-> <<>>]

\* the runner and what it owns, as a request finds it
RunnerSnapshot ==
    [grid |-> grid, tick_count |-> tick_count, states |-> states,
     pass_events |-> pass_events, tick |-> tick, running |-> running,
     websockets |-> websockets, runner_tick_count |-> runner_tick_count,
     tasks |-> tasks]

\* n counts the requests handled so far; error names the exception that ended
\* the handling, "" when it returned
NoCommand ==
    [n |-> 0, op |-> "none", error |-> "", ws |-> "", x |-> <<>>,
     y |-> <<>>, ret |-> "None", pre |-> <<>>, tag |-> ""]

\* no broadcast was called yet. n counts the calls; pc is "awaiting" inside
\* await ws.send_json for the websocket cur, "blocked" when that send does not
\* complete, "returned" or "raised" when the call ended
NoSending ==
    [n |-> 0, op |-> "none", pc |-> "idle", error |-> "", ret |-> "None",
     arg |-> <<>>, message |-> <<>>, registered |-> {}, used |-> 0,
     visited |-> {}, cur |-> "", delivered |-> {}, disconnected |-> {}]

\* ConwayRunner.__init__
IdleRunner ==
    /\ running = FALSE
    /\ websockets = {}
    /\ runner_tick_count = 0
    /\ tasks = <<>>
    /\ connections = [ws \in {} |-> <<>>]
    /\ command = NoCommand
    /\ sending = NoSending

\* EmbeddingGrid.__init__
FreshLayer(n) ==
    /\ states = [i \in Cells(n) |-> EmbeddingState(i)]
    /\ pass_events = <<>>
    /\ tick = 0
    /\ call = NoCall

IdleConway(n) ==
    /\ grid = ZeroGrid(n)
    /\ tick_count = 0
    /\ step_pre = grid
    /\ deltas = <<>>

\* ConwayGrid.__init__ followed by any content of the grid
InitConway ==
    /\ size \in GridSizes
    /\ grid \in AllGrids(size)
    /\ tick_count = 0
    /\ step_pre = grid
    /\ deltas = <<>>
    /\ FreshLayer(size)
    /\ route_in = NoRoute
    /\ route_out = <<>>
    /\ placed = NoPlacement
    /\ IdleRunner

NextConway == ConwayGrid_step

SpecConway == InitConway /\ [][NextConway]_vars

InitLayer ==
    /\ size \in GridSizes
    /\ IdleConway(size)
    /\ FreshLayer(size)
    /\ route_in = NoRoute
    /\ route_out = <<>>
    /\ placed = NoPlacement
    /\ IdleRunner

NextLayer ==
    \/ \E c \in InjectCells(size), in \in InjectInputs :
          inject_delta(c, in[2], in[1])
    \/ \E e \in EnergyInputs(size) : EmbeddingGrid_step(e)

SpecLayer == InitLayer /\ [][NextLayer]_vars

\* EmbeddingState.__init__(cell_idx, dim): the vector and the first history
\* entry are np.zeros(dim)
EmbeddingStateOfDim(cell_idx, dim) ==
    [EmbeddingState(cell_idx) EXCEPT
        !.vector = [i \in 1 .. dim |-> 0],
        !.history = <<[i \in 1 .. dim |-> 0]>>]

\* the values of embedding_dim a layer is built with: the default, and one
\* that is not the default
LayerDims == {VecDim, VecDim + 1}

\* the configured dimension of a layer, read off a cell's vector
embedding_dim(sts) == Len(sts[0].vector)

\* EmbeddingGrid.__init__(size, embedding_dim)
InitDim ==
    /\ size \in GridSizes
    /\ IdleConway(size)
    /\ \E dim \in LayerDims :
          states = [i \in Cells(size) |-> EmbeddingStateOfDim(i, dim)]
    /\ pass_events = <<>>
    /\ tick = 0
    /\ call = NoCall
    /\ route_in = NoRoute
    /\ route_out = <<>>
    /\ placed = NoPlacement
    /\ IdleRunner

NextDim ==
    \E c \in InjectCells(size), in \in InjectInputs :
        inject_delta(c, in[2], in[1])

SpecDim == InitDim /\ [][NextDim]_vars

\* a unit vector between axis 1 and the last axis (norm 1 to the nearest unit)
TiltedVec == [i \in 1 .. VecDim |-> IF i = 1 THEN 95 ELSE IF i = VecDim THEN 31 ELSE 0]

\* the vectors a cell may carry when route_delta is called: the initial zero
\* vector or a unit vector (any unit vector is what randomize_dead_embeddings
\* may have assigned)
RouteCellVectors == {ZeroVec, UnitVec(1), TiltedVec}

\* the payload vectors handed to route_delta
RoutePayloadVectors == {ZeroVec, UnitVec(1), NegVec(UnitVec(1))}

\* a layer in which cells a and b carry chosen vectors, and the arguments of
\* the route_delta calls
InitRoute ==
    /\ size \in GridSizes
    /\ IdleConway(size)
    /\ pass_events = <<>>
    /\ tick = 0
    /\ call = NoCall
    /\ \E a \in Cells(size), b \in Cells(size) :
          \E va \in RouteCellVectors, vb \in RouteCellVectors :
              /\ a <= b
              /\ a = b => va = vb
              /\ states = [i \in Cells(size) |->
                            [EmbeddingState(i) EXCEPT
                                !.vector = IF i = a THEN va
                                           ELSE IF i = b THEN vb ELSE @]]
    /\ \E f \in Cells(size), pv \in RoutePayloadVectors,
          e \in EnergyInputs(size) :
          route_in = [from_idx |-> f,
                      payload |-> DeltaPayload("r1", pv, Norm(pv), 0),
                      energy_field |-> e]
    /\ route_out = <<>>
    /\ placed = NoPlacement
    /\ IdleRunner

NextRoute == RouteCall

SpecRoute == InitRoute /\ [][NextRoute]_vars

\* the cell whose methods are called directly, and the payloads handed to
\* receive_delta
DirectCells == {0}
ReceiveInputs ==
    {DeltaPayload("p1", ZeroVec, 0, 0),
     DeltaPayload("p2", UnitVec(1), Scale, 0),
     DeltaPayload("p4", TiltedVec, Norm(TiltedVec), 0),
     DeltaPayload("p5", NegVec(UnitVec(1)), Scale, 0)}

\* EmbeddingState.pass_delta called on cell c of the layer
state_pass_delta(c) ==
    /\ states[c].deltas_passed < MaxReceives
    /\ \E r \in {pass_delta(states[c])} :
          /\ states' = [states EXCEPT ![c] = r.state]
          /\ call' = [NoCall EXCEPT !.op = "pass", !.cell = c,
                         !.ret = r.payload, !.pre = <<Snapshot>>]
    /\ UNCHANGED <<size, conway_vars, pass_events, tick, route_vars, placed,
                   runner_vars>>

\* EmbeddingState.receive_delta(payload) called on cell c of the layer
state_receive_delta(c, payload) ==
    /\ states[c].deltas_received < MaxReceives
    /\ states' = [states EXCEPT ![c] = receive_delta(states[c], payload)]
    /\ call' = [NoCall EXCEPT !.op = "receive", !.cell = c,
                   !.vector = payload.vector, !.id = payload.id,
                   !.pre = <<Snapshot>>]
    /\ UNCHANGED <<size, conway_vars, pass_events, tick, route_vars, placed,
                   runner_vars>>

\* the methods of one EmbeddingState called in any order
NextState ==
    \/ \E c \in DirectCells, in \in InjectInputs : inject_delta(c, in[2], in[1])
    \/ \E c \in DirectCells : state_pass_delta(c)
    \/ \E c \in DirectCells, payload \in ReceiveInputs :
          state_receive_delta(c, payload)

SpecState == InitLayer /\ [][NextState]_vars

(***************************************************************************)
(* ConwayRunner and the /ws endpoint of conway_server                      *)
(***************************************************************************)
\* the websockets that may connect
Clients == {"w1", "w2"}

\* the sides a runner is built with: ConwayRunner(grid_size); the server
\* builds 8
RunnerSizes == {4, 8, 9}

\* the parameters of ConwayGrid.seed_glider that a call may name
SeedGliderParams == {"x", "y"}

\* a call binds when every keyword it passes names a parameter; otherwise
\* python raises TypeError before the body runs
Binds(params, keywords) == keywords \subseteq params

\* asyncio.create_task(runner.run_loop()): the task exists, none of its code
\* has run yet
CreatedTask == [pc |-> "created", error |-> ""]

Recorded(op, error, ws, x, y, ret) ==
    [n |-> command.n + 1, op |-> op, error |-> error, ws |-> ws, x |-> x,
     y |-> y, ret |-> ret, pre |-> <<RunnerSnapshot>>, tag |-> ""]

\* conway_server.startup, the runner already built
startup ==
    /\ tasks = <<>>
    /\ command = NoCommand
    /\ tasks' = <<CreatedTask>>
    /\ UNCHANGED <<size, conway_vars, layer_vars, route_vars, placed, running,
                   websockets, runner_tick_count, connections, command,
                   sending>>

\* ConwayRunner.run_loop from its first line to its first suspension: sets
\* running, then calls seed_glider(r_offset=1, c_offset=1), which does not
\* bind; the TypeError ends the task
run_loop(t) ==
    /\ tasks[t].pc = "created"
    /\ running' = TRUE
    /\ ~Binds(SeedGliderParams, {"r_offset", "c_offset"})
    /\ tasks' = [tasks EXCEPT ![t] = [pc |-> "raised", error |-> "TypeError"]]
    /\ UNCHANGED <<size, conway_vars, layer_vars, route_vars, placed,
                   websockets, runner_tick_count, connections, command,
                   sending>>

\* ConwayRunner.send_full_state: the message built from the runner
FullState ==
    [type |-> "full_state", tick |-> runner_tick_count, grid |-> grid,
     size |-> size]

\* websocket_endpoint up to its first receive_text: accept, add_client; the
\* server accepts connections after startup returned and the event loop ran
\* the task startup created
connect(ws) ==
    /\ tasks # <<>>
    /\ tasks[1].pc # "created"
    /\ ws \notin DOMAIN connections
    /\ websockets' = websockets \cup {ws}
    /\ connections' = [w \in DOMAIN connections \cup {ws} |->
                         IF w = ws
                         THEN [open |-> TRUE, received |-> <<FullState>>]
                         ELSE connections[w]]
    /\ UNCHANGED <<size, conway_vars, layer_vars, route_vars, placed, running,
                   runner_tick_count, tasks, command, sending>>

\* websocket_endpoint: receive_text raises WebSocketDisconnect
disconnect(ws) ==
    /\ ws \in DOMAIN connections
    /\ connections[ws].open
    /\ websockets' = websockets \ {ws}
    /\ connections' = [connections EXCEPT ![ws].open = FALSE]
    /\ UNCHANGED <<size, conway_vars, layer_vars, route_vars, placed, running,
                   runner_tick_count, tasks, command, sending>>

\* command_data.get(key): <<v>> for a key that holds v, <<>> (python's None)
\* for a key the data lacks
None == <<>>

\* the "start" branch with no check of runner.running
start_unguarded(is_running) == [running |-> TRUE, create |-> TRUE]

\* the "start" branch of websocket_endpoint
start_guarded(is_running) ==
    IF ~is_running THEN [running |-> TRUE, create |-> TRUE]
    ELSE [running |-> is_running, create |-> FALSE]

\* websocket_endpoint: one text message received and handled, explored while
\* fewer than limit requests were handled
receive_text_within(limit, ws, data) ==
    /\ command.n < limit
    /\ ws \in DOMAIN connections
    /\ connections[ws].open
    /\ IF data = "reset"
       THEN \* grid.fill(0), then seed_glider(r_offset=1, c_offset=1) raises:
            \* the handler ends, send_full_state and remove_client are not
            \* reached
            /\ grid' = ZeroGrid(size)
            /\ ~Binds(SeedGliderParams, {"r_offset", "c_offset"})
            /\ connections' = [connections EXCEPT ![ws].open = FALSE]
            /\ command' = Recorded("reset", "TypeError", ws, None, None, "None")
            /\ UNCHANGED <<running, tasks>>
       ELSE IF data = "stop"
       THEN /\ running' = FALSE
            /\ command' = Recorded("stop", "", ws, None, None, "None")
            /\ UNCHANGED <<grid, tasks, connections>>
       ELSE IF data = "start"
       THEN \E s \in {start_guarded(running)} :
              /\ running' = s.running
              /\ tasks' = IF s.create THEN Append(tasks, CreatedTask)
                          ELSE tasks
              /\ command' = Recorded("start", "", ws, None, None, "None")
              /\ UNCHANGED <<grid, connections>>
       ELSE /\ command' = Recorded("text", "", ws, None, None, "None")
            /\ UNCHANGED <<grid, running, tasks, connections>>
    /\ UNCHANGED <<size, tick_count, step_pre, deltas, layer_vars, route_vars,
                   placed, websockets, runner_tick_count, sending>>

receive_text(ws, data) == receive_text_within(MaxCommands, ws, data)

\* the test 0 <= x < 8 and 0 <= y < 8 of the toggle_cell branch
ToggleLimit == 8

\* the side of the index arithmetic x, y = i % 8, i // 8 of the
\* randomize_dead_embeddings branch
RandomizeSide == 8

\* unit vectors np.random.randn(dim), divided by its norm, may give
RandomUnits == <<UnitVec(1), TiltedVec, NegVec(UnitVec(1))>>

\* the states of the generator np.random when the command arrives
RandSeeds == {0, 1}

\* the k-th vector the generator yields from state seed
RandVec(seed, k) == RandomUnits[((seed + k) % Len(RandomUnits)) + 1]

\* the cell grid[y, x] the loop reads at index i; <<>> where the read raises
\* IndexError
RandomizeRead(g, n, i) ==
    LET x == i % RandomizeSide
        y == i \div RandomizeSide
    IN  IF ArrayIndex(y, n) < 0 \/ ArrayIndex(x, n) < 0 THEN <<>>
        ELSE <<g[y][x]>>

\* the loop of the randomize_dead_embeddings branch over enumerate(states):
\* it ends at the first index whose read raises (ok is FALSE, the cells before
\* it keep what the loop assigned); the cell at index i that reads 0 gets the
\* vector drawn after one draw for each earlier index that read 0
RandomizeLoop(sts, g, n, seed) ==
    LET raising == {i \in Cells(n) : RandomizeRead(g, n, i) = <<>>}
        reached == {i \in Cells(n) : \A j \in raising : i < j}
        drawn == {i \in reached : RandomizeRead(g, n, i) = <<0>>}
    IN  [states |-> [i \in Cells(n) |->
                       IF i \in drawn
                       THEN [sts[i] EXCEPT !.vector =
                               RandVec(seed,
                                       Cardinality({j \in drawn : j < i}))]
                       ELSE sts[i]],
         ok |-> raising = {}]

\* the tags handle_command has a branch for
CommandTypes ==
    {"toggle_cell", "set_mode", "randomize_dead_embeddings", "reset"}

\* a chain whose last branch runs the reset code
BranchEndsInReset(cmd_type) ==
    IF cmd_type \in CommandTypes THEN cmd_type ELSE "reset"

\* the if/elif/else chain of handle_command: the branch a tag selects
Branch(cmd_type) ==
    IF cmd_type \in CommandTypes THEN cmd_type ELSE "unknown"

\* ConwayRunner.handle_command(command_data)
handle_command(command_data) ==
    /\ command.n < MaxCommands
    /\ \E branch \in {Branch(command_data.type)},
          rec \in {[Recorded("", "", "", None, None, "None")
                      EXCEPT !.tag = command_data.type]} :
       IF branch = "toggle_cell"
       THEN LET x == command_data.x
                y == command_data.y
            IN  IF x # None /\ y # None /\ 0 <= x[1] /\ x[1] < ToggleLimit
                   /\ 0 <= y[1] /\ y[1] < ToggleLimit
                THEN IF ArrayIndex(y[1], size) < 0 \/ ArrayIndex(x[1], size) < 0
                     THEN /\ command' = [rec EXCEPT !.op = "toggle_cell",
                                           !.error = "IndexError",
                                           !.x = x, !.y = y]
                          /\ UNCHANGED <<grid, states>>
                     ELSE /\ grid' = [grid EXCEPT ![y[1]][x[1]] = 1 - @]
                          /\ command' = [rec EXCEPT !.op = "toggle_cell",
                                           !.x = x, !.y = y]
                          /\ UNCHANGED states
                ELSE /\ command' = [rec EXCEPT !.op = "toggle_cell",
                                      !.x = x, !.y = y]
                     /\ UNCHANGED <<grid, states>>
       ELSE IF branch = "set_mode"
       THEN /\ command' = [rec EXCEPT !.op = "set_mode",
                             !.ret = "Mode set to coupled with birth policy"]
            /\ UNCHANGED <<grid, states>>
       ELSE IF branch = "randomize_dead_embeddings"
       THEN \E seed \in RandSeeds :
              \E r \in {RandomizeLoop(states, grid, size, seed)} :
                /\ states' = r.states
                /\ command' = [rec EXCEPT
                                 !.op = "randomize_dead_embeddings",
                                 !.error = IF r.ok THEN "" ELSE "IndexError"]
                /\ UNCHANGED grid
       ELSE IF branch = "reset"
       THEN \E w \in {WriteCells(ZeroGrid(size), size, GliderWrites(1, 1), 1)} :
              /\ grid' = w.grid
              /\ command' = [rec EXCEPT !.op = "reset",
                               !.error = IF w.ok THEN "" ELSE "IndexError"]
              /\ UNCHANGED states
       ELSE /\ command' = [rec EXCEPT !.op = "unknown"]
            /\ UNCHANGED <<grid, states>>
    /\ UNCHANGED <<size, tick_count, step_pre, deltas, pass_events, tick, call,
                   route_vars, placed, running, websockets, runner_tick_count,
                   tasks, connections, sending>>

\* the coordinates sent with toggle_cell
ToggleCoordinates ==
    {<< <<0>>, <<0>> >>, << <<5>>, <<5>> >>, << <<8>>, <<8>> >>,
     << <<0 - 1>>, <<0>> >>, << <<0>>, <<9>> >>, << None, <<3>> >>}

\* the command data handed to handle_command
CommandInputs ==
    {[type |-> "toggle_cell", x |-> c[1], y |-> c[2]] : c \in ToggleCoordinates}
        \cup {[type |-> t, x |-> None, y |-> None] :
                 t \in {"set_mode", "reset", "explode",
                        "randomize_dead_embeddings"}}

\* the texts a websocket sends
TextInputs == {"reset", "stop", "start", "hello"}

\* ConwayRunner.__init__(grid_size)
InitRunner ==
    /\ size \in RunnerSizes
    /\ IdleConway(size)
    /\ FreshLayer(size)
    /\ route_in = NoRoute
    /\ route_out = <<>>
    /\ placed = NoPlacement
    /\ IdleRunner

NextRunner ==
    \/ startup
    \/ \E t \in DOMAIN tasks : run_loop(t)
    \/ \E ws \in Clients : connect(ws)
    \/ \E ws \in Clients : disconnect(ws)
    \/ \E ws \in Clients, data \in TextInputs : receive_text(ws, data)
    \/ \E command_data \in CommandInputs : handle_command(command_data)

SpecRunner == InitRunner /\ [][NextRunner]_vars

\* the event loop runs every task it was given; what clients and callers do
\* is up to them
SpecRunnerFair ==
    SpecRunner /\ WF_vars(\E t \in DOMAIN tasks : run_loop(t))

\* the texts that start and stop the loop
StartStopInputs == {"stop", "start"}

\* start and stop requests from the observers, the loop tasks scheduled in
\* any order with them
NextStartStop ==
    \/ startup
    \/ \E t \in DOMAIN tasks : run_loop(t)
    \/ \E ws \in Clients : connect(ws)
    \/ \E ws \in Clients : disconnect(ws)
    \/ \E ws \in Clients, data \in StartStopInputs :
          receive_text_within(MaxRequests, ws, data)

SpecStartStop == InitRunner /\ [][NextStartStop]_vars

\* json.dumps(message) raises TypeError: the entries of a delta message are
\* the CellDelta instances ConwayGrid.step returned, which the encoder does
\* not serialize; the edges of an embedding message are dicts
DumpsRaises(message) == message.type = "delta" /\ message.deltas # <<>>

\* for ws in self.websockets, from one call of the iterator to the next
\* suspension: the iterator raises RuntimeError when the set changed its size
\* since the loop began; otherwise it yields a websocket not yet visited and
\* the loop body starts await ws.send_json(message), or it is exhausted (which
\* a set that changed its members may be early) and the code after the loop
\* runs: self.websockets -= disconnected; return msg_size.
\* A send on an open connection may never complete.
Advance(s) ==
    IF Cardinality(websockets) # s.used
    THEN /\ sending' = [s EXCEPT !.pc = "raised", !.error = "RuntimeError",
                           !.cur = ""]
         /\ UNCHANGED websockets
    ELSE \/ \E ws \in websockets \ s.visited :
              \E blocks \in IF connections[ws].open THEN BOOLEAN ELSE {FALSE} :
                /\ sending' = [s EXCEPT
                                 !.pc = IF blocks THEN "blocked" ELSE "awaiting",
                                 !.cur = ws, !.visited = @ \cup {ws}]
                /\ UNCHANGED websockets
         \/ /\ websockets \ s.visited = {} \/ websockets # s.registered
            /\ sending' = [s EXCEPT !.pc = "returned", !.ret = "msg_size",
                              !.cur = ""]
            /\ websockets' = websockets \ s.disconnected

\* a broadcast call from its first line to its first suspension
Broadcast(op, arg, message) ==
    /\ sending.pc \in {"idle", "returned", "raised"}
    /\ sending.n < MaxBroadcasts
    /\ \E s \in {[NoSending EXCEPT !.n = sending.n + 1, !.op = op,
                                  !.arg = arg, !.registered = websockets,
                                  !.used = Cardinality(websockets)]} :
          IF websockets = {} \/ arg = <<>>
          THEN /\ sending' = [s EXCEPT !.pc = "returned"]
               /\ UNCHANGED websockets
          ELSE IF DumpsRaises(message)
          THEN /\ sending' = [s EXCEPT !.pc = "raised", !.error = "TypeError"]
               /\ UNCHANGED websockets
          ELSE Advance([s EXCEPT !.message = <<message>>])
    /\ UNCHANGED <<size, conway_vars, layer_vars, route_vars, placed, running,
                   runner_tick_count, tasks, connections, command>>

\* ConwayRunner.broadcast_deltas(deltas)
broadcast_deltas(ds) ==
    Broadcast("delta", ds,
              [type |-> "delta", tick |-> runner_tick_count, deltas |-> ds])

\* ConwayRunner.broadcast_embedding_deltas(pass_events)
broadcast_embedding_deltas(events) ==
    Broadcast("embedding_deltas", events,
              [type |-> "embedding_deltas", tick |-> runner_tick_count,
               edges |-> [k \in 1 .. Len(events) |-> to_dict(events[k])]])

\* await ws.send_json(message) ends, by returning (ok) or by raising, and the
\* broadcast goes on to its next suspension; a send on a closed connection
\* raises
send_json(ok) ==
    /\ \/ sending.pc = "awaiting"
       \/ sending.pc = "blocked" /\ ~connections[sending.cur].open
    /\ ok => connections[sending.cur].open
    /\ connections' =
          IF ok
          THEN [connections EXCEPT ![sending.cur].received =
                                      Append(@, sending.message[1])]
          ELSE connections
    /\ Advance([sending EXCEPT
                  !.delivered = IF ok THEN @ \cup {sending.cur} ELSE @,
                  !.disconnected = IF ok THEN @ ELSE @ \cup {sending.cur}])
    /\ UNCHANGED <<size, conway_vars, layer_vars, route_vars, placed, running,
                   runner_tick_count, tasks, command>>

\* the change lists handed to broadcast_deltas: what ConwayGrid.step returns
\* when no cell changed and when one cell did
DeltaInputs == {<<>>, <<[x |-> 2, y |-> 1, alive |-> TRUE]>>}

\* the pass-event lists handed to broadcast_embedding_deltas: what
\* EmbeddingGrid.step returns when no, one and two payloads moved
PassEventInputs ==
    {<<>>,
     <<PassEvent(0, 10, 11, "test_delta_0", Scale, Scale)>>,
     <<PassEvent(1, 11, 3, "test_delta_0", Scale, 0),
       PassEvent(1, 2, 10, "periodic_delta_10", Scale, Scale)>>}

\* the broadcasts called while observers connect and disconnect
NextBroadcast ==
    \/ startup
    \/ \E t \in DOMAIN tasks : run_loop(t)
    \/ \E ws \in Clients : connect(ws)
    \/ \E ws \in Clients : disconnect(ws)
    \/ \E ds \in DeltaInputs : broadcast_deltas(ds)
    \/ \E events \in PassEventInputs : broadcast_embedding_deltas(events)
    \/ \E ok \in BOOLEAN : send_json(ok)

SpecBroadcast == InitRunner /\ [][NextBroadcast]_vars

\* the event loop resumes a broadcast whose send ended; when a send ends, and
\* what observers do, is up to the network and to them
SpecBroadcastFair == SpecBroadcast /\ WF_vars(\E ok \in BOOLEAN : send_json(ok))

\* one step of the automaton, taken when the change list of the step before it
\* has been handed to broadcast_deltas
step_then_broadcast ==
    /\ sending.n = tick_count
    /\ sending.pc \in {"idle", "returned", "raised"}
    /\ StepWithin(MaxSteps)

\* broadcast_deltas called on the change list the last step returned
broadcast_step_deltas ==
    /\ sending.n < tick_count
    /\ broadcast_deltas(deltas)

\* a runner whose grid is seeded with the glider and then stepped, each
\* step's change list broadcast to the observers, which connect once the grid
\* is seeded
NextObserver ==
    \/ startup
    \/ \E t \in DOMAIN tasks : run_loop(t)
    \/ \E ws \in Clients : placed # NoPlacement /\ connect(ws)
    \/ seed_glider(1, 1)
    \/ step_then_broadcast
    \/ broadcast_step_deltas

SpecObserver == InitRunner /\ [][NextObserver]_vars

\* a tick in which the layer counts only the steps that passed a payload
step_together_skipping_idle ==
    /\ runner_tick_count < MaxTick
    /\ \E ng \in {NewGrid(grid, size)} :
          /\ \E changed \in {Argwhere(grid, ng, size)} :
                deltas' = ComputeDeltas(changed, ng)
          /\ grid' = ng
          /\ \E acc \in {StepLoop([states |-> states, tick_events |-> <<>>,
                                   pass_events |-> pass_events],
                                  PendingCells(states, size), size, tick,
                                  <<EnergyField(ng, size)>>)} :
                /\ states' = acc.states
                /\ pass_events' = acc.pass_events
                /\ call' = [NoCall EXCEPT !.op = "step",
                               !.ret = acc.tick_events, !.pre = <<Snapshot>>]
    /\ step_pre' = grid
    /\ tick_count' = tick_count + 1
    /\ tick' = IF PendingCells(states, size) = <<>> THEN tick ELSE tick + 1
    /\ runner_tick_count' = runner_tick_count + 1
    /\ UNCHANGED <<size, route_vars, placed, running, websockets, tasks,
                   connections, command, sending>>

\* one tick executed statement by statement: conway_deltas = grid.step();
\* pass_events = embedding_grid.step(grid * 0.5 + 0.25); tick_count += 1
step_together ==
    /\ runner_tick_count < MaxTick
    /\ \E ng \in {NewGrid(grid, size)} :
          /\ \E changed \in {Argwhere(grid, ng, size)} :
                deltas' = ComputeDeltas(changed, ng)
          /\ grid' = ng
          /\ \E acc \in {StepLoop([states |-> states, tick_events |-> <<>>,
                                   pass_events |-> pass_events],
                                  PendingCells(states, size), size, tick,
                                  <<EnergyField(ng, size)>>)} :
                /\ states' = acc.states
                /\ pass_events' = acc.pass_events
                /\ call' = [NoCall EXCEPT !.op = "step",
                               !.ret = acc.tick_events, !.pre = <<Snapshot>>]
    /\ step_pre' = grid
    /\ tick_count' = tick_count + 1
    /\ tick' = tick + 1
    /\ runner_tick_count' = runner_tick_count + 1
    /\ UNCHANGED <<size, route_vars, placed, running, websockets, tasks,
                   connections, command, sending>>

\* the cells injected into before ticking: cell 0 and its neighbour 1
TogetherCells == {0, 1}

\* a runner seeded and injected into, then ticked
NextTogether ==
    \/ seed_glider(1, 1)
    \/ \E c \in TogetherCells, in \in InjectInputs :
          inject_delta(c, in[2], in[1])
    \/ step_together

SpecTogether == InitRunner /\ [][NextTogether]_vars

\* the grid sides on which patterns are followed; 8 is the default side
PatternSizes == {3, 4, 5, 8}

\* np.ones((size, size))
FullGrid(n) == [y \in Coords(n) |-> [x \in Coords(n) |-> 1]]

\* what the grid holds when a pattern is written into it
PriorGrids(n) ==
    {ZeroGrid(n), FullGrid(n), [ZeroGrid(n) EXCEPT ![0][0] = 1]}

\* ConwayGrid.__init__ followed by one of the prior contents
InitPattern ==
    /\ size \in PatternSizes
    /\ grid \in PriorGrids(size)
    /\ tick_count = 0
    /\ step_pre = grid
    /\ deltas = <<>>
    /\ FreshLayer(size)
    /\ route_in = NoRoute
    /\ route_out = <<>>
    /\ placed = NoPlacement
    /\ IdleRunner

NextPattern ==
    \/ \E x \in Coords(size), y \in Coords(size) : seed_glider(x, y)
    \/ \E x \in Coords(size), y \in Coords(size) : write_block(x, y)
    \/ \E x \in Coords(size), y \in Coords(size) : write_blinker(x, y)
    \/ StepWithin(MaxPatternSteps)

SpecPattern == InitPattern /\ [][NextPattern]_vars

(***************************************************************************)
(* Claims about EmbeddingState.hold_delta and EmbeddingGrid.step           *)
(***************************************************************************)
\* the 8 toroidal Moore neighbours of a cell, as a set
MooreSet(n, idx) ==
    {(((idx \div n) + dy) % n) * n + (((idx % n) + dx) % n) :
        dx \in -1 .. 1, dy \in -1 .. 1} \ {idx}

PendingBefore(pre) == {c \in DOMAIN pre.states : pre.states[c].pending_delta # <<>>}

\* C1: a hold (through inject_delta) on a cell that already holds a payload
\* fails and leaves the cell's pending payload, vector, history and counters as
\* they were; a hold on a cell holding nothing stores exactly the given payload
\* and changes nothing else of the cell.
C1_HoldContract ==
    (call.op = "inject" /\ PayloadShapeOk(call.vector)) =>
        LET before == call.pre[1].states[call.cell]
            after == states[call.cell]
        IN  IF before.pending_delta # <<>>
            THEN ~call.ok /\ after = before
            ELSE /\ call.ok
                 /\ Len(after.pending_delta) = 1
                 /\ after.pending_delta[1].id = call.id
                 /\ after.pending_delta[1].vector = call.vector
                 /\ [after EXCEPT !.pending_delta = <<>>] = before

\* a hold refused on a cell that holds a payload with another id
C1_Witness ==
    /\ call.op = "inject"
    /\ ~call.ok
    /\ PayloadShapeOk(call.vector)
    /\ call.pre[1].states[call.cell].pending_delta # <<>>
    /\ call.pre[1].states[call.cell].pending_delta[1].id # call.id
    /\ call.pre[1].states[call.cell].pending_delta[1].vector # call.vector

\* C2: EmbeddingGrid.step runs to its end (the layer tick advances) and leaves
\* no cell holding a payload, whatever cells held one when it began.
C2_StepLeavesNothingPending ==
    call.op = "step" =>
        /\ tick = call.pre[1].tick + 1
        /\ \A c \in Cells(size) : states[c].pending_delta = <<>>

\* a step in which two payloads were delivered to the same recipient
C2_Witness ==
    /\ call.op = "step"
    /\ \E i \in 1 .. Len(call.ret), j \in 1 .. Len(call.ret) :
          i # j /\ call.ret[i].to_idx = call.ret[j].to_idx

\* C3: step returns one PassEvent per cell that held a payload when it began
\* and none for another cell, by strictly increasing source index, each with
\* the id of the payload its source held and a Moore neighbour of the source as
\* destination; the log grows by exactly these events in this order.
C3_StepEvents ==
    call.op = "step" =>
        LET pre == call.pre[1]
            ev == call.ret
        IN  /\ \A c \in Cells(size) :
                  Cardinality({k \in 1 .. Len(ev) : ev[k].from_idx = c})
                      = IF c \in PendingBefore(pre) THEN 1 ELSE 0
            /\ \A k \in 1 .. Len(ev) :
                  /\ ev[k].from_idx \in PendingBefore(pre)
                  /\ ev[k].payload_id
                        = pre.states[ev[k].from_idx].pending_delta[1].id
                  /\ ev[k].to_idx \in MooreSet(size, ev[k].from_idx)
            /\ \A i \in 1 .. Len(ev), j \in 1 .. Len(ev) :
                  i < j => ev[i].from_idx < ev[j].from_idx
            /\ pass_events = pre.pass_events \o ev

\* a step that passed two payloads with different ids
C3_Witness ==
    /\ call.op = "step"
    /\ Len(call.ret) = 2
    /\ call.ret[1].payload_id # call.ret[2].payload_id

\* the cells whose vector the last call changed
ChangedVectors == {c \in Cells(size) : states[c].vector # call.pre[1].states[c].vector}

\* C4 as stated: after one injection and one step exactly one cell's vector
\* differs from its value before the step, the recipient's.
C4_ExactlyRecipientChanged ==
    (call.op = "step" /\ Cardinality(PendingBefore(call.pre[1])) = 1) =>
        /\ Len(call.ret) = 1
        /\ ChangedVectors = {call.ret[1].to_idx}

\* C4 amended: after a step that began with one pending payload, no cell other
\* than the recipient named in the pass event has a changed vector (the sender
\* and every other cell keep theirs), and the recipient is not the sender.
C4_OnlyRecipientMayChange ==
    (call.op = "step" /\ Cardinality(PendingBefore(call.pre[1])) = 1) =>
        /\ Len(call.ret) = 1
        /\ ChangedVectors \subseteq {call.ret[1].to_idx}
        /\ call.ret[1].to_idx # call.ret[1].from_idx
        /\ call.ret[1].from_idx \in PendingBefore(call.pre[1])

\* a step that began with one pending payload and changed the recipient's vector
C4_Witness ==
    /\ call.op = "step"
    /\ Cardinality(PendingBefore(call.pre[1])) = 1
    /\ Len(call.ret) = 1
    /\ ChangedVectors = {call.ret[1].to_idx}

C6_RouteNoSideEffect ==
    call.op = "route" =>
        /\ states = call.pre[1].states
        /\ pass_events = call.pre[1].pass_events
        /\ tick = call.pre[1].tick

\* a call that chose a neighbour with a vector of its own, for a non-zero payload
C6_Witness ==
    /\ call.op = "route"
    /\ Len(route_out) >= 1
    /\ route_in.payload.vector # ZeroVec
    /\ route_in.energy_field # <<>>

\* the score the claim gives neighbour nb of the call route_in
ClaimEnergy(nb) ==
    IF route_in.energy_field = <<>> THEN NeutralEnergy
    ELSE route_in.energy_field[1][nb \div size][nb % size]
ClaimSimilarity(nb) ==
    cosine_similarity(states[nb].vector, route_in.payload.vector)
ClaimScore(nb) == AlphaCosine * ClaimSimilarity(nb) + AlphaEnergy * ClaimEnergy(nb)

\* the neighbours of the source in enumeration order
ClaimNeighbors == EmbeddingGrid_get_neighbors(size, route_in.from_idx)

\* the scores and similarities of the neighbours, in enumeration order
ClaimScores == [k \in 1 .. 8 |-> ClaimScore(ClaimNeighbors[k])]
ClaimSimilarities == [k \in 1 .. 8 |-> ClaimSimilarity(ClaimNeighbors[k])]

\* C7: route_delta returns a Moore neighbour of the source whose score
\* wCos*similarity + wEnergy*energy is greatest; among the neighbours with the
\* greatest score it is the earliest in enumeration order; without an energy
\* field (every energy 0.5) it has the greatest similarity; the similarity
\* returned is that of the chosen neighbour.
C7_RouteBest ==
    Len(route_out) >= 1 =>
        \E sc \in {ClaimScores}, sim \in {ClaimSimilarities} :
            \E k \in 1 .. 8 :
                /\ ClaimNeighbors[k] = route_out[1].to_idx
                /\ route_out[1].to_idx \in MooreSet(size, route_in.from_idx)
                /\ \A j \in 1 .. 8 : sc[j] <= sc[k]
                /\ \A j \in 1 .. (k - 1) : sc[j] < sc[k]
                /\ route_in.energy_field = <<>> =>
                      \A j \in 1 .. 8 : sim[j] <= sim[k]
                /\ route_out[1].similarity = sim[k]

\* a call in which two neighbours with a vector of their own shared the
\* greatest score and the one chosen is not the first of the enumeration
C7_Witness ==
    /\ Len(route_out) >= 1
    /\ route_out[1].to_idx # ClaimNeighbors[1]
    /\ states[route_out[1].to_idx].vector # ZeroVec
    /\ \E j \in 1 .. 8 :
          /\ ClaimNeighbors[j] # route_out[1].to_idx
          /\ ClaimScore(ClaimNeighbors[j]) = ClaimScore(route_out[1].to_idx)

AllScoresTie ==
    \E sc \in {ClaimScores} : \A j \in 1 .. 8 : sc[j] = sc[1]

\* the least element of a non-empty set of integers
MinOf(S) == CHOOSE m \in S : \A o \in S : m <= o

\* a cell none of whose neighbours is reached by wrapping around
Interior(n, idx) ==
    /\ idx % n >= 1 /\ idx % n <= n - 2
    /\ idx \div n >= 1 /\ idx \div n <= n - 2

\* C8 as stated: when all eight scores tie, route_delta returns the neighbour
\* with the lowest cell index, for every source cell.
C8_TieLowestIndex ==
    (Len(route_out) >= 1 /\ AllScoresTie) =>
        route_out[1].to_idx = MinOf(MooreSet(size, route_in.from_idx))

\* C8 amended: when all eight scores tie, route_delta returns the first
\* neighbour of the enumeration, the cell at ((x-1) mod N, (y-1) mod N); this
\* is the neighbour with the lowest cell index when the source is an interior
\* cell (no neighbour reached by wrapping).
C8_TieFirstEnumerated ==
    (Len(route_out) >= 1 /\ AllScoresTie) =>
        LET x == route_in.from_idx % size
            y == route_in.from_idx \div size
        IN  /\ route_out[1].to_idx = ((y - 1) % size) * size + ((x - 1) % size)
            /\ Interior(size, route_in.from_idx) =>
                  route_out[1].to_idx = MinOf(MooreSet(size, route_in.from_idx))

\* a tie of all eight scores at a source on the grid edge, under an energy field
C8_Witness ==
    /\ Len(route_out) >= 1
    /\ AllScoresTie
    /\ ~Interior(size, route_in.from_idx)
    /\ route_in.energy_field # <<>>
    /\ route_out[1].to_idx # MinOf(MooreSet(size, route_in.from_idx))

(***************************************************************************)
(* Claims about ConwayGrid.step                                            *)
(***************************************************************************)
\* the classic rule applied to one cell of a snapshot
RuleOnSnapshot(g, n, x, y) ==
    LET nb == ConwayGrid_get_neighbors(g, n, x, y)
    IN  IF g[y][x] = 1 THEN nb = 2 \/ nb = 3 ELSE nb = 3

\* C9: after ConwayGrid.step every cell is live iff the birth/survival rule,
\* applied to the pre-step grid with the wrapped Moore count get_neighbors(x, y)
\* of that pre-step grid, says so (2 or 3 for a live cell, exactly 3 for a dead
\* one); no cell's value depends on a value written during the same step.
C9_StepFromSnapshot ==
    tick_count > 0 =>
        \A x \in Coords(size), y \in Coords(size) :
            (grid[y][x] = 1) <=> RuleOnSnapshot(step_pre, size, x, y)

\* a step in which a birth, a survival, a death by isolation and a death by
\* overcrowding all happened
C9_Witness ==
    /\ tick_count > 0
    /\ \E x \in Coords(size), y \in Coords(size) :
          step_pre[y][x] = 0 /\ grid[y][x] = 1
    /\ \E x \in Coords(size), y \in Coords(size) :
          step_pre[y][x] = 1 /\ grid[y][x] = 1
    /\ \E x \in Coords(size), y \in Coords(size) :
          /\ step_pre[y][x] = 1 /\ grid[y][x] = 0
          /\ ConwayGrid_get_neighbors(step_pre, size, x, y) < 2
    /\ \E x \in Coords(size), y \in Coords(size) :
          /\ step_pre[y][x] = 1 /\ grid[y][x] = 0
          /\ ConwayGrid_get_neighbors(step_pre, size, x, y) > 3

LiveCells(g, n) == {c \in Coords(n) \X Coords(n) : g[c[2]][c[1]] = 1}

LiveCount(g, n) == Cardinality(LiveCells(g, n))

\* a glider was seeded into the empty grid of side n
SeededOnEmpty(n) ==
    placed.op = "seed_glider" /\ size = n /\ placed.pre = ZeroGrid(n)

\* C11: the glider seeded at any origin (x, y), 0 <= x, y < 8, into the empty
\* 8x8 toroidal grid has exactly 5 live cells right after seeding and after
\* every later step.
C11_GliderFiveCells ==
    SeededOnEmpty(8) => LiveCount(grid, 8) = 5

\* the part of C11 the program keeps: origins whose 3x3 box lies inside the
\* grid
GliderFiveCellsInside ==
    (SeededOnEmpty(8) /\ placed.x <= 5 /\ placed.y <= 5) =>
        /\ placed.ok
        /\ LiveCount(grid, 8) = 5
        /\ tick_count = MaxPatternSteps => grid = placed.ret

\* the glider seeded at (1, 1) into the empty 8x8 grid
GliderAtOneOne == SeededOnEmpty(8) /\ placed.x = 1 /\ placed.y = 1

Translated(cells, dx, dy) == {<<c[1] + dx, c[2] + dy>> : c \in cells}

\* C12: on the grid of side 8 with the glider seeded at (1, 1), after exactly 4
\* steps there are exactly 5 live cells and they are the seeded cells moved
\* one column right and one row down (the centroid moved by (+1, +1)).
C12_GliderMovesDiagonally ==
    (GliderAtOneOne /\ tick_count = 4) =>
        /\ LiveCount(grid, 8) = 5
        /\ LiveCells(grid, 8) = Translated(LiveCells(placed.ret, 8), 1, 1)

\* four steps were taken after seeding the glider at (1, 1)
C12_Witness ==
    /\ GliderAtOneOne
    /\ placed.ok
    /\ tick_count = 4
    /\ grid # placed.ret

\* C13: a 2x2 block anywhere on the otherwise empty 8x8 torus is a fixed point
\* of step: after any number of steps the grid is the grid that held the
\* block, and every such step returned an empty list of changes.
C13_BlockFixedPoint ==
    (placed.op = "block" /\ size = 8 /\ tick_count > 0) =>
        /\ grid = placed.ret
        /\ step_pre = placed.ret
        /\ deltas = <<>>

\* a block lying across both edges of the 8x8 torus was stepped more than once
C13_Witness ==
    /\ placed.op = "block" /\ size = 8
    /\ placed.x = 7 /\ placed.y = 7
    /\ LiveCount(placed.ret, 8) = 4
    /\ tick_count > 1

\* C14, as stated: a 3-cell horizontal blinker S on an otherwise empty
\* toroidal grid has step(S) # S and step(step(S)) = S.
C14_BlinkerPeriodTwo ==
    placed.op = "blinker" =>
        /\ tick_count = 1 => grid # placed.ret
        /\ tick_count = 2 => grid = placed.ret

\* C14, amended: a 3-cell horizontal blinker S on an otherwise empty toroidal
\* grid of side at least 4 has step(S) # S and step(step(S)) = S.
C14_BlinkerPeriodTwoFromSideFour ==
    (placed.op = "blinker" /\ size >= 4) =>
        /\ tick_count = 1 => grid # placed.ret
        /\ tick_count = 2 => grid = placed.ret

\* a blinker lying across the edge of a torus of side at least 4 was stepped
\* twice
C14_Witness ==
    /\ placed.op = "blinker" /\ size >= 4
    /\ placed.x = size - 1
    /\ LiveCount(placed.ret, size) = 3
    /\ tick_count = 2
    /\ step_pre # placed.ret

\* the glider's cells as offsets <<dx, dy>> from its origin
GliderOffsets == {<<1, 0>>, <<2, 1>>, <<0, 2>>, <<1, 2>>, <<2, 2>>}

WrappedGlider(n, x, y) ==
    {<<(x + o[1]) % n, (y + o[2]) % n>> : o \in GliderOffsets}

\* C15: for every origin (x, y) in [0, N) x [0, N) and every prior content of
\* the grid, seeding the glider succeeds and leaves exactly the five cells at
\* the glider's offsets from the origin, each coordinate taken modulo N, live
\* and every other cell dead.
C15_SeedWrapsAndClears ==
    (placed.op = "seed_glider" /\ tick_count = 0) =>
        /\ placed.ok
        /\ LiveCells(grid, size) = WrappedGlider(size, placed.x, placed.y)

\* the part of C15 the program keeps: an origin whose 3x3 box lies inside the
\* grid, seeded into the empty grid
SeedInsideEmpty ==
    (placed.op = "seed_glider" /\ tick_count = 0 /\ placed.pre = ZeroGrid(size)
        /\ placed.x + 2 < size /\ placed.y + 2 < size) =>
        /\ placed.ok
        /\ LiveCells(grid, size) = WrappedGlider(size, placed.x, placed.y)

(***************************************************************************)
(* Claims about commands, the tick loop and its observers                  *)
(***************************************************************************)
\* the grid as the last request found it
GridBefore == command.pre[1].grid

InGrid(v, n) == v # None /\ v[1] \in Coords(n)

\* C16: for every grid side N, toggle_cell with 0 <= x, y < N flips exactly
\* cell (x, y) and changes no other cell; toggle_cell with a coordinate outside
\* [0, N) is rejected with InvalidCoordinate, is not wrapped modulo N and
\* leaves the grid unchanged.
C16_ToggleContract ==
    command.op = "toggle_cell" =>
        IF InGrid(command.x, size) /\ InGrid(command.y, size)
        THEN /\ command.error = ""
             /\ grid = [GridBefore EXCEPT ![command.y[1]][command.x[1]] = 1 - @]
        ELSE /\ command.error = "InvalidCoordinate"
             /\ grid = GridBefore

\* the part of C16 the program keeps: on the side 8 a coordinate pair inside
\* the grid flips exactly its cell, and on every side a pair outside the grid
\* leaves the grid as it was
ToggleOnDefaultSide ==
    command.op = "toggle_cell" =>
        /\ (size = ToggleLimit /\ InGrid(command.x, size)
               /\ InGrid(command.y, size)) =>
              grid = [GridBefore EXCEPT ![command.y[1]][command.x[1]] = 1 - @]
        /\ ~(InGrid(command.x, size) /\ InGrid(command.y, size)) =>
              grid = GridBefore

\* a step taken by a run_loop task
LoopStep == \E t \in DOMAIN tasks : tasks'[t] # tasks[t]

\* C17: commands are buffered and applied by the tick loop at the next tick
\* boundary; no command changes the grid or an embedding state outside the
\* tick task: every step that changes either is a step of a run_loop task.
C17_MutationOnlyInTickTask ==
    [][(grid' # grid \/ states' # states) => LoopStep]_vars

\* the grid a connection reconstructs from what it was sent: that of its last
\* full_state message (no delta message is ever sent)
View(ws) == connections[ws].received[Len(connections[ws].received)].grid

AllObserversCurrent == \A ws \in websockets : View(ws) = grid

\* a toggle_cell or reset command was accepted while observers were registered
AcceptedCommand ==
    /\ command.op \in {"toggle_cell", "reset"}
    /\ command.error = ""
    /\ command.ws = ""
    /\ websockets # {}

\* C18: the effect of an accepted toggle_cell or reset command becomes visible
\* to every registered observer: after the command a moment comes at which
\* the grid each observer reconstructs from its messages is the automaton's
\* grid.
C18_CommandVisible == [](AcceptedCommand => <>AllObserversCurrent)

\* the positions of one tick of run_loop, in the order of the claim
TickOrder ==
    <<"step", "energy_field", "embedding_step", "tick_count", "broadcast">>

Handled(op) == command'.n = command.n + 1 /\ command'.op = op

\* C20: a start request while running is set starts no loop and changes no
\* state of the simulation; a stop request while running is not set changes
\* nothing; neither raises.
C20_StartStopIdempotent ==
    [][/\ (Handled("start") /\ running) =>
             /\ command'.error = ""
             /\ UNCHANGED <<size, conway_vars, states, pass_events, tick,
                            running, websockets, runner_tick_count, tasks,
                            connections>>
       /\ (Handled("stop") /\ ~running) =>
             /\ command'.error = ""
             /\ UNCHANGED <<size, conway_vars, states, pass_events, tick,
                            running, websockets, runner_tick_count, tasks,
                            connections>>]_vars

\* a start request arrived while running was set and a loop task had been
\* created, and no task was added
C20_Witness ==
    /\ command.op = "start"
    /\ command.pre[1].running
    /\ command.pre[1].tasks # <<>>
    /\ tasks = command.pre[1].tasks

(***************************************************************************)
(* Claims about payload dimensions and emitted records                     *)
(***************************************************************************)
\* C26: for every configured embedding dimension d, injecting a vector of
\* length d into a cell that holds nothing succeeds and makes the cell hold
\* the payload; injecting a vector of any other length is rejected before a
\* cell state, the log or a counter is touched.
C26_DimensionChecked ==
    call.op = "inject" =>
        IF Len(call.vector) = embedding_dim(call.pre[1].states)
        THEN call.pre[1].states[call.cell].pending_delta = <<>> =>
                /\ call.ok
                /\ states[call.cell].pending_delta # <<>>
                /\ states[call.cell].pending_delta[1].vector = call.vector
        ELSE /\ ~call.ok
             /\ Snapshot = call.pre[1]

\* the part of C26 the program keeps: in a layer of the default dimension
DimensionCheckedAtDefault ==
    embedding_dim(states) = VecDim => C26_DimensionChecked

\* C28: for every grid side and every pass event, the emitted record gives from
\* and to as x = index mod size, y = index div size, as idx_to_xy does.
C28_ToDictMatchesLayer ==
    \A k \in 1 .. Len(pass_events) :
        LET d == to_dict(pass_events[k])
        IN  /\ <<d.from.x, d.from.y>> = idx_to_xy(size, pass_events[k].from_idx)
            /\ <<d.to.x, d.to.y>> = idx_to_xy(size, pass_events[k].to_idx)

\* an inject_delta call whose vector has the payload shape and whose target
\* cell held a payload
InjectIntoBusy ==
    /\ call.op = "inject"
    /\ PayloadShapeOk(call.vector)
    /\ call.pre[1].states[call.cell].pending_delta # <<>>

\* C25: an injection that targets a cell already holding a payload is dropped:
\* the call returns to its caller, which goes on, and no state is created or
\* changed.
C25_BusyInjectDropped ==
    InjectIntoBusy => (call.ok /\ Snapshot = call.pre[1])

\* the part of C25 the program keeps: the cell, the log and the tick are as
\* before; the call ends by raising
BusyInjectRaises ==
    InjectIntoBusy => (~call.ok /\ Snapshot = call.pre[1])

(***************************************************************************)
(* Claims about commands                                                   *)
(***************************************************************************)
\* a request whose tag no branch names was handled in this step: a command
\* given to handle_command, or a text received by the connection handler
UnknownHandled ==
    /\ command'.n = command.n + 1
    /\ \/ command'.op = "text"
       \/ command'.ws = "" /\ command'.tag \notin CommandTypes

\* C29: a command whose tag is not one of toggle_cell,
\* randomize_dead_embeddings, reset, set_mode is rejected: the grid, every
\* embedding state, the log and the tick counters are as before, the loop
\* flag and the loop tasks are as before, the connections stay as they were,
\* and the handling returns without raising.
C29_UnknownCommandRejected ==
    [][UnknownHandled =>
          /\ RunnerSnapshot' = RunnerSnapshot
          /\ connections' = connections
          /\ command'.error = ""
          /\ command'.ret = "None"]_vars

\* an unknown command was handled by a runner whose grid had been changed,
\* whose loop flag was set and which had an observer
C29_Witness ==
    /\ command.tag = "explode"
    /\ command.op = "unknown"
    /\ grid # ZeroGrid(size)
    /\ running
    /\ websockets # {}

\* C30: for every grid side, the randomize command replaces the vector of
\* every cell whose automaton cell (x = index mod size, y = index div size)
\* is dead and leaves unchanged the vector of every live cell, every cell's
\* pending payload, history and counters, the log and the automaton grid.
C30_RandomizeDeadOnly ==
    command.op = "randomize_dead_embeddings" =>
        /\ command.error = ""
        /\ grid = command.pre[1].grid
        /\ pass_events = command.pre[1].pass_events
        /\ \A i \in Cells(size) :
              LET xy == idx_to_xy(size, i)
                  before == command.pre[1].states[i]
              IN  /\ [states[i] EXCEPT !.vector = <<>>]
                        = [before EXCEPT !.vector = <<>>]
                  /\ IF command.pre[1].grid[xy[2]][xy[1]] = 0
                     THEN \E k \in DOMAIN RandomUnits :
                              states[i].vector = RandomUnits[k]
                     ELSE states[i].vector = before.vector

\* the part of C30 the program keeps: on the side its index arithmetic is
\* written for
RandomizeOnDefaultSide ==
    size = RandomizeSide => C30_RandomizeDeadOnly

\* a randomize command was handled on the default side with a live cell
RandomizeWithLiveCell ==
    /\ command.op = "randomize_dead_embeddings"
    /\ size = RandomizeSide
    /\ grid # ZeroGrid(size)

(***************************************************************************)
(* Claims about starting and stopping the loop                             *)
(***************************************************************************)
\* the loop tasks that were created and have not ended
LiveTasks == {t \in DOMAIN tasks : tasks[t].pc = "created"}

BroadcastEnded == sending.pc \in {"returned", "raised"}

\* the entries the message of the last broadcast carries, in order
Carried ==
    IF sending.op = "delta" THEN sending.message[1].deltas
    ELSE sending.message[1].edges

\* the entries the last broadcast was given, as a message carries them
Given ==
    IF sending.op = "delta" THEN sending.arg
    ELSE [k \in 1 .. Len(sending.arg) |-> to_dict(sending.arg[k])]

\* C27: on every tick with at least one registered observer, a cell-delta
\* message is sent if and only if the change list is non-empty and an
\* embedding-delta message if and only if the pass-event list is non-empty; a
\* sent message carries exactly the entries of the list in their order, and
\* sending does not end the loop by raising.
C27_SentIffNonEmpty ==
    (sending.op # "none" /\ sending.registered # {}) =>
        /\ sending.error = ""
        /\ BroadcastEnded =>
              /\ sending.message # <<>> <=> sending.arg # <<>>
              /\ sending.arg # <<>> => sending.delivered # {}
                                         \/ sending.disconnected # {}
        /\ sending.message # <<>> => Carried = Given

\* the part of C27 the program keeps: for embedding batches, as long as the
\* registry keeps its size during the broadcast
EmbeddingSentIffNonEmpty ==
    (sending.op = "embedding_deltas" /\ sending.error # "RuntimeError"
        /\ sending.registered \subseteq websockets \cup sending.disconnected)
    => C27_SentIffNonEmpty

\* C23: if sending a batch to a registered observer fails, that observer is
\* removed from the registry, every other observer registered for the batch
\* receives it, and the broadcast returns to the loop without raising.
C23_FailedObserverDropped ==
    (BroadcastEnded /\ sending.disconnected # {}) =>
        /\ sending.error = ""
        /\ sending.disconnected \cap websockets = {}
        /\ sending.registered \ sending.disconnected \subseteq sending.delivered

\* the part of C23 the program keeps: when the broadcast ran to its end
FailedObserverDroppedOnReturn ==
    (sending.pc = "returned" /\ sending.disconnected # {}) =>
        /\ sending.disconnected \cap websockets = {}
        /\ websockets \cap sending.registered \subseteq sending.delivered

\* C24: an observer whose send never completes does not stall the
\* simulation: the broadcast that is blocked in that send ends, so that the
\* loop can execute the next tick.
C24_BlockedSendEnds == (sending.pc = "blocked") ~> BroadcastEnded

(***************************************************************************)
(* Claims about EmbeddingState                                             *)
(***************************************************************************)
\* C34: pass on a cell holding a payload returns that payload, clears the
\* pending slot and increments deltas_passed by one; pass on a cell holding
\* nothing returns None and leaves every field of the cell unchanged; no other
\* field changes in either case.
C34_PassContract ==
    call.op = "pass" =>
        LET before == call.pre[1].states[call.cell]
            after == states[call.cell]
        IN  /\ call.ok
            /\ call.ret = before.pending_delta
            /\ IF before.pending_delta # <<>>
               THEN after = [before EXCEPT !.pending_delta = <<>>,
                                           !.deltas_passed = @ + 1]
               ELSE after = before
            /\ \A c \in Cells(size) \ {call.cell} :
                  states[c] = call.pre[1].states[c]

\* a pass on a cell holding nothing that had passed and received before, and a
\* pass that returned a payload
C34_Witness ==
    /\ call.op = "pass"
    /\ call.ret = <<>>
    /\ states[call.cell].deltas_passed > 0
    /\ states[call.cell].deltas_received > 0

\* C35: receive pushes the cell's vector as it was before the update onto its
\* history, evicting the oldest entry once 4 are kept, and increments
\* deltas_received by one, leaving the pending payload and deltas_passed as
\* they were; the history length is min(4, 1 + deltas_received) in every cell
\* at all times.
C35_ReceiveHistory ==
    /\ \A c \in Cells(size) :
          Len(states[c].history)
              = IF 1 + states[c].deltas_received < HistoryMaxLen
                THEN 1 + states[c].deltas_received ELSE HistoryMaxLen
    /\ call.op = "receive" =>
          LET before == call.pre[1].states[call.cell]
              after == states[call.cell]
          IN  /\ after.history =
                    IF Len(before.history) < HistoryMaxLen
                    THEN before.history \o <<before.vector>>
                    ELSE Tail(before.history) \o <<before.vector>>
              /\ after.deltas_received = before.deltas_received + 1
              /\ after.pending_delta = before.pending_delta
              /\ after.deltas_passed = before.deltas_passed
              /\ after.cell_idx = before.cell_idx

\* a receive on a cell whose history was full, with four different entries,
\* and which held a payload
C35_Witness ==
    /\ call.op = "receive"
    /\ Len(call.pre[1].states[call.cell].history) = HistoryMaxLen
    /\ call.pre[1].states[call.cell].history[1]
          # call.pre[1].states[call.cell].history[HistoryMaxLen]
    /\ call.pre[1].states[call.cell].vector
          # call.pre[1].states[call.cell].history[HistoryMaxLen]
    /\ states[call.cell].pending_delta # <<>>

\* C36: for a cell that has received at least one payload,
\* cosine_with_previous is the cosine similarity of the current vector with
\* the vector the cell held immediately before its most recent receive; for a
\* cell that never received it is 1.0.
C36_SimilarityToPrevious ==
    /\ \A c \in Cells(size) :
          states[c].deltas_received = 0 => cosine_with_previous(states[c]) = Scale
    /\ call.op = "receive" =>
          cosine_with_previous(states[call.cell])
              = cosine_similarity(states[call.cell].vector,
                                  call.pre[1].states[call.cell].vector)

\* the part of C36 the program keeps: 1.0 for a cell that never received, and
\* after a receive the comparison is with the vector the cell held before the
\* receive preceding the most recent one (the initial vector after the first)
SimilarityToLastButOne ==
    /\ \A c \in Cells(size) :
          states[c].deltas_received = 0 => cosine_with_previous(states[c]) = Scale
    /\ call.op = "receive" =>
          LET before == call.pre[1].states[call.cell]
          IN  cosine_with_previous(states[call.cell])
                  = cosine_similarity(states[call.cell].vector,
                                      before.history[Len(before.history)])

(***************************************************************************)
(* Claims about the pass-event log                                         *)
(***************************************************************************)
\* C37: every PassEvent a step produces carries the layer's tick as it was
\* when the step began (0 for the first step), and the tick is one more when
\* the step has returned.
C37_EventsStampedAtStepBegin ==
    /\ call.op = "step" =>
          /\ \A k \in 1 .. Len(call.ret) : call.ret[k].tick = call.pre[1].tick
          /\ tick = call.pre[1].tick + 1
    /\ \A k \in 1 .. Len(pass_events) :
          pass_events[k].tick < tick /\ pass_events[k].tick >= 0

\* a step that was not the first and produced events
C37_Witness ==
    /\ call.op = "step"
    /\ call.pre[1].tick > 0
    /\ Len(call.ret) > 0
    /\ call.pre[1].pass_events # <<>>

\* the sum of a counter over all cells
SumPassed == SumSeq([k \in 1 .. size * size |-> states[k - 1].deltas_passed])
SumReceived ==
    SumSeq([k \in 1 .. size * size |-> states[k - 1].deltas_received])

\* C38: after any sequence of inject and step calls the length of the log is
\* the sum of deltas_passed over all cells and the sum of deltas_received
\* over all cells, and the log only grows at its end: what it held before a
\* call is a prefix of what it holds after.
C38_LogCountsAndGrows ==
    /\ [](Len(pass_events) = SumPassed /\ Len(pass_events) = SumReceived)
    /\ [][/\ Len(pass_events') >= Len(pass_events)
          /\ SubSeq(pass_events', 1, Len(pass_events)) = pass_events]_vars

\* the log holds events of two steps, and a cell has received twice
C38_Witness ==
    /\ Len(pass_events) >= 2
    /\ pass_events[1].tick # pass_events[Len(pass_events)].tick
    /\ \E c \in Cells(size) : states[c].deltas_received >= 2

(***************************************************************************)
(* Claims about reset and payload identity                                 *)
(***************************************************************************)
\* the live cells <<x, y>> of the glider seeded at (1, 1)
DefaultGlider ==
    {<<GliderWrites(1, 1)[k][2], GliderWrites(1, 1)[k][1]>> :
        k \in DOMAIN GliderWrites(1, 1)}

\* C31: after a reset command the grid holds exactly the glider seeded at
\* (1, 1), five live cells and all others dead, whatever it held before, the
\* command returns without raising, and the cell states, the log and the
\* tick counters are as before.
C31_ResetSeedsGlider ==
    command.op = "reset" =>
        /\ command.error = ""
        /\ LiveCells(grid, size) = DefaultGlider
        /\ LiveCount(grid, size) = 5
        /\ states = command.pre[1].states
        /\ pass_events = command.pre[1].pass_events
        /\ tick = command.pre[1].tick
        /\ tick_count = command.pre[1].tick_count
        /\ runner_tick_count = command.pre[1].runner_tick_count

\* the part of C31 the program keeps: a reset given to handle_command
ResetThroughHandleCommand ==
    command.ws = "" => C31_ResetSeedsGlider

\* a reset was given to handle_command when the grid was not empty
ResetOfChangedGrid ==
    /\ command.op = "reset"
    /\ command.ws = ""
    /\ command.pre[1].grid # ZeroGrid(size)

\* C32: no two payloads share an id, and a payload is pending in at most one
\* cell: the payloads pending at any moment have pairwise different ids.
C32_PayloadIdsUnique ==
    \A c \in Cells(size), d \in Cells(size) :
        (c # d /\ states[c].pending_delta # <<>>
               /\ states[d].pending_delta # <<>>)
        => states[c].pending_delta[1].id # states[d].pending_delta[1].id

(***************************************************************************)
(* Claims about what observers are sent                                    *)
(***************************************************************************)
\* a grid with the entries of one cell-delta batch applied in order
RECURSIVE ApplyDeltas(_, _)
ApplyDeltas(g, ds) ==
    IF ds = <<>> THEN g
    ELSE ApplyDeltas([g EXCEPT ![Head(ds).y][Head(ds).x] =
                         IF Head(ds).alive THEN 1 ELSE 0],
                     Tail(ds))

\* the grid an observer obtains from the messages it was sent: the grid of a
\* full_state message replaces what it had, a delta message is applied to it
RECURSIVE Reconstructed(_, _)
Reconstructed(g, msgs) ==
    IF msgs = <<>> THEN g
    ELSE IF Head(msgs).type = "full_state"
    THEN Reconstructed(Head(msgs).grid, Tail(msgs))
    ELSE IF Head(msgs).type = "delta"
    THEN Reconstructed(ApplyDeltas(g, Head(msgs).deltas), Tail(msgs))
    ELSE Reconstructed(g, Tail(msgs))

\* C39: with no toggle or reset command, once the change list of the last
\* step has been handed to the broadcast and the broadcast has ended, the grid
\* every registered observer reconstructs from its full_state message and the
\* delta batches sent to it since is the runner's grid.
C39_ObserversFollowGrid ==
    (sending.n = tick_count /\ BroadcastEnded) =>
        \A ws \in websockets :
            Reconstructed(ZeroGrid(size), connections[ws].received) = grid

\* the part of C39 the program keeps: an observer is sent the grid as it is
\* when it registers, and its grid is the runner's as long as no broadcast of
\* a change list raised
ObserversFollowUntilRaise ==
    (sending.n = tick_count /\ sending.error = "") =>
        \A ws \in websockets :
            Reconstructed(ZeroGrid(size), connections[ws].received) = grid

\* C40: a client added to or removed from the registry while a broadcast is
\* suspended in a send to another client does not end the broadcast, and with
\* it the loop, by an exception: no broadcast ends by raising because the
\* registry changed under its iteration.
C40_RegistryChangeTolerated ==
    ~(sending.pc = "raised" /\ sending.error = "RuntimeError")

\* the part of C40 the program keeps: a broadcast that found the registry of
\* the size it began with at each of its steps returns
SameSizeReturns ==
    (BroadcastEnded /\ sending.message # <<>>
        /\ sending.error # "RuntimeError")
    => sending.pc = "returned" /\ sending.ret = "msg_size"

(***************************************************************************)
(* Claims about the tick counters                                          *)
(***************************************************************************)
\* C33: the automaton's, the layer's and the runner's tick counters each
\* advance by exactly one per executed tick, also on a tick with no cell
\* change and no pending payload and on a tick that follows another at once,
\* so the three are equal at every tick boundary; nothing else moves them.
C33_CountersAligned ==
    /\ [](tick_count = tick /\ tick = runner_tick_count)
    /\ [][IF call' # call /\ call'.op = "step"
          THEN /\ tick_count' = tick_count + 1
               /\ tick' = tick + 1
               /\ runner_tick_count' = runner_tick_count + 1
          ELSE UNCHANGED <<tick_count, tick, runner_tick_count>>]_vars

\* a second tick, executed with no cell changed and no payload pending, on a
\* runner whose first tick passed a payload
C33_Witness ==
    /\ runner_tick_count = 2
    /\ tick_count = 2
    /\ tick = 2
    /\ deltas = <<>>
    /\ call.op = "step"
    /\ call.ret = <<>>
    /\ pass_events # <<>>

=============================================================================
